---- MODULE Spec2Model ----
(***************************************************************************)
(* Model of src/app.py: the Flask handler webhook() that relays a Shopify  *)
(* order webhook to the MDS order web service.                             *)
(*                                                                         *)
(* The handler is modelled under the interpreter the source is written for *)
(* (Python 2: u"" literals, httplib, a str key passed to hmac.new) and     *)
(* with app.debug false, the configuration in which mail_handler exists.   *)
(* One run of the machine is one invocation of webhook(); pc is the        *)
(* position of the invocation in the function.                             *)
(***************************************************************************)
EXTENDS Integers, Sequences, FiniteSets, TLC

\* ------------------------------------------------------------------ bounds
\* longest line_items list of an inbound event
MaxLines == 3

\* ----------------------------------------------------------- configuration
SHOPIFY_API_SECRET == "shopify-secret"
MDS_TEST == "Y"

\* logging levels of the standard library, as the handlers compare them
DEBUG == 10
INFO == 20
ERROR == 40

\* app.logger.setLevel(logging.INFO)
LoggerLevel == INFO
\* mail_handler.setLevel(logging.ERROR)
MailLevel == ERROR

\* ------------------------------------------------------------ order events
\* A sku is a string, modelled as its sequence of characters.
Skus == { <<"W", "S", "1">>, <<"D", "C">>, <<"A", "B", "7">>, <<"W">> }

ShipFields == << "company", "name", "address1", "address2", "city",
                 "province_code", "country_code", "zip", "phone" >>
BillFields == << "company", "name", "address1", "address2", "city",
                 "province_code", "country_code", "zip" >>
LineFields == << "sku", "title", "price", "quantity" >>
TopFields == << "order_number", "created_at", "contact_email", "total_price",
                "note", "line_items" >>

Range(s) == { s[i] : i \in DOMAIN s }

\* An event departs from the order schema in at most one place, its defect:
\* a key that is absent, a created_at that is no date, a sku that is no string
\* (JSON null).  where is "", "shipping_address", "billing_address" or "line";
\* line is the 1-based index of the line item, 0 outside line_items.
Defect(kind, where, field, line) ==
    [kind |-> kind, where |-> where, field |-> field, line |-> line]
NoDefect == Defect("none", "", "", 0)
Missing(where, field, line) == Defect("missing", where, field, line)
Malformed(field) == Defect("malformed", "", field, 0)
NonString(field, line) == Defect("nonstring", "line", field, line)

AllDefects ==
    { Missing("", f, 0) : f \in Range(TopFields) }
    \cup { Missing("shipping_address", f, 0) : f \in Range(ShipFields) }
    \cup { Missing("billing_address", f, 0) : f \in Range(BillFields) }
    \cup { Missing("line", f, i) : f \in Range(LineFields), i \in 1..MaxLines }
    \cup { Malformed("created_at") }
    \cup { NonString("sku", i) : i \in 1..MaxLines }

SeqsUpTo(S, n) == UNION { [1..k -> S] : k \in 0..n }

\* a defect is about a place the event has
Applies(d, ev) ==
    CASE d.where = "shipping_address" -> ev.shipping_address = "present"
      [] d.where = "billing_address" -> ev.billing_address = "present"
      [] d.where = "line" -> d.line <= Len(ev.line_items)
      [] OTHER -> TRUE

\* The parsed JSON objects a request can carry.  refunds and the addresses are
\* absent, empty (falsy: [], {} or null) or present; a field the model gives
\* no value passes through the handler unread or unchanged.
Events ==
    { ev \in [ refunds : {"absent", "empty", "truthy"},
               shipping_address : {"absent", "present"},
               country_code : {"US", "CA"},
               billing_address : {"absent", "present"},
               line_items : SeqsUpTo(Skus, MaxLines),
               defect : {NoDefect} \cup AllDefects ] :
        /\ Applies(ev.defect, ev)
        /\ ev.shipping_address = "absent" => ev.country_code = "US"
        /\ ev.defect = Missing("", "line_items", 0) => ev.line_items = << >> }

\* the event an object-less body stands for in the body record
EmptyEvent ==
    [ refunds |-> "absent", shipping_address |-> "absent", country_code |-> "US",
      billing_address |-> "absent", line_items |-> << >>, defect |-> NoDefect ]

\* ---------------------------------------------------------------- requests
\* request.data, the raw bytes of the body: the text of a JSON object, the
\* text "null" (or a body whose mimetype is not JSON), or bytes that are not
\* JSON at all.
Body(json, ev) == [json |-> json, ev |-> ev]
Bodies ==
    { Body("object", ev) : ev \in Events }
    \cup { Body("null", EmptyEvent), Body("invalid", EmptyEvent) }

\* hmac.new(key, msg, hashlib.sha256).digest(): a keyed hash is modelled as the
\* term of its key and message, so two digests are equal exactly when both are.
HmacSha256(key, msg) == [key |-> key, msg |-> msg]
\* base64.b64encode: injective, and not the identity
B64Encode(digest) == [b64 |-> digest]

\* what a sender can put in X-Shopify-Hmac-Sha256 for a body: nothing, the
\* signature of the body, a signature under another key, or the signature of
\* another body (the body was altered after signing)
OtherBody(body) ==
    IF body.json = "null" THEN Body("invalid", EmptyEvent) ELSE Body("null", EmptyEvent)
Header(present, value) == [present |-> present, value |-> value]
NoHeader == Header(FALSE, B64Encode(HmacSha256("", Body("invalid", EmptyEvent))))
HeadersFor(body) ==
    { NoHeader,
      Header(TRUE, B64Encode(HmacSha256(SHOPIFY_API_SECRET, body))),
      Header(TRUE, B64Encode(HmacSha256("another-secret", body))),
      Header(TRUE, B64Encode(HmacSha256(SHOPIFY_API_SECRET, OtherBody(body)))) }

Request(header, body) == [header |-> header, body |-> body]
NoRequest == Request(NoHeader, Body("invalid", EmptyEvent))

\* --------------------------------------------------------- pure functions
\* mutant: the digest is computed over what the header claims was signed, not
\* over the raw body, so only the key is verified
_hmac_ignores_body(secret, body, hmac_to_verify) ==
    B64Encode(HmacSha256(secret, hmac_to_verify.b64.msg)) = hmac_to_verify

_hmac_is_valid(secret, body, hmac_to_verify) ==
    LET hmac_hash == HmacSha256(secret, body)
        hmac_calculated == B64Encode(hmac_hash)
    IN  hmac_calculated = hmac_to_verify

\* request.get_json(): raises on bytes that are not JSON, returns None for
\* the JSON text null (and for a body that is not declared as JSON)
GetJson(body) ==
    [ raised |-> body.json = "invalid",
      isObject |-> body.json = "object",
      ev |-> body.ev ]

\* s.startswith(prefix)
StartsWith(s, prefix) ==
    /\ Len(s) >= Len(prefix)
    /\ SubSeq(s, 1, Len(prefix)) = prefix

Digits == << "0", "1", "2", "3", "4", "5", "6", "7", "8", "9" >>
\* str(n) for n >= 0
RECURSIVE Str(_)
Str(n) == IF n < 10 THEN << Digits[n + 1] >>
          ELSE Str(n \div 10) \o << Digits[(n % 10) + 1] >>
\* s.zfill(width)
RECURSIVE ZFill(_, _)
ZFill(s, width) == IF Len(s) >= width THEN s ELSE ZFill(<< "0" >> \o s, width)

\* ------------------------------------------------------------ field reads
\* The exception that reading one field of the event raises, "none" when the
\* read succeeds: d[k] on an absent key, strptime on a created_at that is no
\* date, .startswith on a sku that is no string.
ReadError(ev, where, field, line) ==
    CASE ev.defect = Missing(where, field, line) -> "KeyError"
      [] where = "shipping_address" /\ ev.shipping_address # "present" -> "KeyError"
      [] where = "billing_address" /\ ev.billing_address # "present" -> "KeyError"
      [] where = "" /\ field = "created_at" /\ ev.defect = Malformed("created_at")
            -> "ValueError"
      [] where = "line" /\ field = "sku" /\ ev.defect = NonString("sku", line)
            -> "AttributeError"
      [] OTHER -> "none"

Read(where, field) == [where |-> where, field |-> field]

\* the first exception of a sequence of reads, in order
RECURSIVE FirstError(_, _, _)
FirstError(ev, reads, line) ==
    IF reads = << >> THEN "none"
    ELSE LET e == ReadError(ev, Head(reads).where, Head(reads).field, line)
         IN  IF e # "none" THEN e ELSE FirstError(ev, Tail(reads), line)

\* data.get(key, '') is truthy
Truthy(presence) == presence \in {"truthy", "present"}

\* ------------------------------------------------------------------ logging
LogRecord(level, msg, order, text) ==
    [level |-> level, msg |-> msg, order |-> order, text |-> text]
\* a record reaches the handlers when the logger's level lets it through
Emit(lg, rec) == IF rec.level >= LoggerLevel THEN Append(lg, rec) ELSE lg

logger_debug(lg, msg) == Emit(lg, LogRecord(DEBUG, msg, FALSE, ""))
logger_info(lg, msg) == Emit(lg, LogRecord(INFO, msg, TRUE, ""))
logger_error(lg, msg) == Emit(lg, LogRecord(ERROR, msg, FALSE, ""))
\* mutant: the exclusions are logged with logger.info
logger_exception_at_info(lg, msg, text) == Emit(lg, LogRecord(INFO, msg, TRUE, text))

\* app.logger.exception logs at ERROR; every call formats the order number in
logger_exception(lg, msg, text) == Emit(lg, LogRecord(ERROR, msg, TRUE, text))

Response(status, body) == [status |-> status, body |-> body]
NoResponse == Response(0, "")
OK == Response(200, "OK")

\* ------------------------------------------------------ document building
\* the reads of lines 119-172, in the order the try block makes them
HeadReads(ev) ==
    << Read("", "order_number"), Read("", "created_at") >>
    \o (IF Truthy(ev.shipping_address)
        THEN [i \in 1..Len(ShipFields) |-> Read("shipping_address", ShipFields[i])]
             \o << Read("", "contact_email") >>
        ELSE << >>)
    \o (IF Truthy(ev.billing_address)
        THEN [i \in 1..Len(BillFields) |-> Read("billing_address", BillFields[i])]
        ELSE << >>)
    \o << Read("", "total_price"), Read("", "note"), Read("", "line_items") >>

\* the reads of lines 186-195 for a retained line
LineReads ==
    << Read("line", "sku"), Read("line", "sku"), Read("line", "title"),
       Read("line", "price"), Read("line", "quantity") >>

IsWholesale(sku) == StartsWith(sku, << "W", "S" >>)
IsDecorativeCover(sku) == StartsWith(sku, << "D", "C" >>)

\* mutant: the line number is not padded
LineNumberUnpadded(n) == Str(n)

\* str(line_item_num).zfill(3)
LineNumber(n) == ZFill(Str(n), 3)

\* the locals of the try block when it is left: exc is the exception that
\* left it, "none" when it ran to its end
BuildState(exc, Lines, num, ws, dc) ==
    [ exc |-> exc, Lines |-> Lines, line_item_num |-> num,
      wholesale_lines |-> ws, dc_lines |-> dc ]

\* the for loop of lines 172-195, from line item i on
RECURSIVE LineLoop(_, _, _)
LineLoop(ev, i, st) ==
    IF i > Len(ev.line_items) THEN st
    ELSE LET sku == ev.line_items[i]
             e1 == ReadError(ev, "line", "sku", i)
         IN  IF e1 # "none" THEN [st EXCEPT !.exc = e1]
             ELSE IF IsWholesale(sku)
             THEN LineLoop(ev, i + 1, [st EXCEPT !.wholesale_lines = @ + 1])
             ELSE IF IsDecorativeCover(sku)
             THEN LineLoop(ev, i + 1, [st EXCEPT !.dc_lines = @ + 1])
             ELSE LET num == st.line_item_num + 1
                      Line == [ number |-> LineNumber(num),
                                CUSTItemID |-> sku, RetailerItemID |-> sku ]
                      st2 == [st EXCEPT !.line_item_num = num,
                                        !.Lines = Append(@, Line)]
                      e2 == FirstError(ev, LineReads, i)
                  IN  IF e2 # "none" THEN [st2 EXCEPT !.exc = e2]
                      ELSE LineLoop(ev, i + 1, st2)

\* the try block of lines 113-195
BuildDocument(ev) ==
    LET e == FirstError(ev, HeadReads(ev), 0)
    IN  IF e # "none" THEN BuildState(e, << >>, 0, 0, 0)
        ELSE LineLoop(ev, 1, BuildState("none", << >>, 0, 0, 0))

\* ------------------------------------------------------ the MDS web service
\* r.text, the bodies the service can answer with
AckOne == "<CUSTOrderAck><OrderAck><Result>1</Result></OrderAck></CUSTOrderAck>"
AckZero == "<CUSTOrderAck><OrderAck><Result>0</Result></OrderAck></CUSTOrderAck>"
AckNoResult == "<CUSTOrderAck><OrderAck><Error>x</Error></OrderAck></CUSTOrderAck>"
NotAnAck == "<html><body>Bad Gateway</body></html>"
NotXml == "Service Unavailable"
ResponseTexts == { AckOne, AckZero, AckNoResult, NotAnAck, NotXml }

\* xmltodict.parse(text): raises on text that is not XML; result is the value
\* at ['CUSTOrderAck']['OrderAck']['Result'], "absent" when the path is not there
XmlParse(text) ==
    [ raised |-> text = NotXml,
      result |-> CASE text = AckOne -> "1"
                   [] text = AckZero -> "0"
                   [] OTHER -> "absent" ]

\* the assert of line 232 passes
AckIsPositive(resp) == resp.result # "absent" /\ resp.result = "1"

\* -------------------------------------------------------------------- state
VARIABLES
    pc,               \* position of the invocation in webhook()
    request,          \* the inbound request: its signature header and raw body
    data,             \* the result of request.get_json()
    document,         \* the Line elements under Order/Lines of the MDSOrder tree
    line_item_num,    \* retained lines so far
    wholesale_lines,  \* lines excluded for a "WS" sku
    dc_lines,         \* lines excluded for a "DC" sku
    log,              \* the records app.logger handed to its handlers, in order
    response,         \* the response to the inbound caller
    sent,             \* the documents POSTed to MDS_WS_ENDPOINT, in order
    r                 \* the text of the MDS response

vars == << pc, request, data, document, line_item_num, wholesale_lines,
           dc_lines, log, response, sent, r >>

NoData == [isObject |-> FALSE, ev |-> EmptyEvent]

Init ==
    /\ pc = "idle"
    /\ request = NoRequest
    /\ data = NoData
    /\ document = << >>
    /\ line_item_num = 0
    /\ wholesale_lines = 0
    /\ dc_lines = 0
    /\ log = << >>
    /\ response = NoResponse
    /\ sent = << >>
    /\ r = ""

\* return body, status
Return(resp, lg) ==
    /\ response' = resp
    /\ log' = lg
    /\ pc' = "done"

\* An exception no except clause of webhook() catches leaves the view: Flask
\* logs it at ERROR and answers 500.
Unhandled(exc) ==
    Return(Response(500, "Internal Server Error"),
           Emit(log, LogRecord(ERROR, "Exception on /webhook [POST]", FALSE, exc)))

\* POST /webhook arrives
Receive ==
    /\ pc = "idle"
    /\ \E body \in Bodies : \E header \in HeadersFor(body) :
          request' = Request(header, body)
    /\ pc' = "validate"
    /\ UNCHANGED << data, document, line_item_num, wholesale_lines, dc_lines,
                    log, response, sent, r >>

\* lines 71-77
Validate ==
    /\ pc = "validate"
    /\ LET json == GetJson(request.body)
       IN  IF ~request.header.present \/ json.raised
           THEN /\ Return(Response(400, "Bad Request (missing data)"),
                          logger_error(log, "Error receiving webhook"))
                /\ UNCHANGED data
           ELSE /\ data' = [isObject |-> json.isObject, ev |-> json.ev]
                /\ pc' = "verify"
                /\ UNCHANGED << log, response >>
    /\ UNCHANGED << request, document, line_item_num, wholesale_lines, dc_lines,
                    sent, r >>

\* lines 79-84
VerifyHmac ==
    /\ pc = "verify"
    /\ IF ~_hmac_is_valid(SHOPIFY_API_SECRET, request.body, request.header.value)
       THEN Return(Response(400, "Bad Request (failed validation)"),
                   logger_error(log, "Error validating webhook"))
       ELSE /\ log' = logger_debug(log, "Got Shopify webhook")
            /\ pc' = "filter"
            /\ UNCHANGED response
    /\ UNCHANGED << request, data, document, line_item_num, wholesale_lines,
                    dc_lines, sent, r >>

\* mutant: the country test is inverted
IsInternationalInverted(ev) == ev.country_code = "US"

IsRefund(ev) == Truthy(ev.refunds)
HasNoShippingAddress(ev) == ~Truthy(ev.shipping_address)
IsInternational(ev) == ev.country_code # "US"

\* a business exclusion of lines 86-99: format the message, which reads
\* data['order_number'], log it and return "OK"
Discard(ev, msg) ==
    LET e == ReadError(ev, "", "order_number", 0)
    IN  IF e # "none" THEN Unhandled(e)
        ELSE Return(OK, logger_exception(log, msg, ""))

\* lines 86-99
Filter ==
    /\ pc = "filter"
    /\ LET ev == data.ev
       IN  IF ~data.isObject THEN Unhandled("AttributeError")
           ELSE IF IsRefund(ev)
           THEN Discard(ev, "Discarding order from Shopify: refund.")
           ELSE IF HasNoShippingAddress(ev)
           THEN Discard(ev, "Problem processing order from Shopify: no shipping address.")
           ELSE IF ReadError(ev, "shipping_address", "country_code", 0) # "none"
           THEN Unhandled(ReadError(ev, "shipping_address", "country_code", 0))
           ELSE IF IsInternational(ev)
           THEN Discard(ev, "International order from Shopify - not sent to MDS.")
           ELSE /\ pc' = "build"
                /\ UNCHANGED << log, response >>
    /\ UNCHANGED << request, data, document, line_item_num, wholesale_lines,
                    dc_lines, sent, r >>

\* lines 101-199
Build ==
    /\ pc = "build"
    /\ LET ev == data.ev
           st == BuildDocument(ev)
       IN  /\ document' = st.Lines
           /\ line_item_num' = st.line_item_num
           /\ wholesale_lines' = st.wholesale_lines
           /\ dc_lines' = st.dc_lines
           /\ IF st.exc = "none"
              THEN /\ pc' = "account"
                   /\ UNCHANGED << log, response >>
              ELSE IF st.exc = "KeyError"
              THEN \* except KeyError: the message reads data['order_number']
                   LET e == ReadError(ev, "", "order_number", 0)
                   IN  IF e # "none" THEN Unhandled(e)
                       ELSE Return(OK, logger_exception(log,
                                "Problem parsing order from Shopify.", ""))
              ELSE Unhandled(st.exc)
    /\ UNCHANGED << request, data, sent, r >>

\* lines 201-209
Account ==
    /\ pc = "account"
    /\ LET l1 == IF wholesale_lines > 0
                 THEN logger_info(log, "Ignoring wholesale lines in order from Shopify.")
                 ELSE log
           l2 == IF dc_lines > 0
                 THEN logger_info(l1, "Ignoring decorative cover lines in order from Shopify.")
                 ELSE l1
       IN  IF line_item_num = 0
           THEN Return(OK, logger_info(l2,
                    "Ignoring order from Shopify - all wholesale or decorative covers."))
           ELSE /\ log' = l2
                /\ pc' = "send"
                /\ UNCHANGED response
    /\ UNCHANGED << request, data, document, line_item_num, wholesale_lines,
                    dc_lines, sent, r >>

Replies == ResponseTexts \cup {"ConnectionError"}

\* lines 211-228: the POST is made; it raises (reply = "ConnectionError") or
\* the service answers with a body, which xmltodict.parse reads
Send ==
    /\ pc = "send"
    /\ sent' = Append(sent, [Test |-> MDS_TEST = "Y", Lines |-> document])
    /\ \E reply \in Replies :
          IF reply = "ConnectionError"
          THEN /\ Unhandled("ConnectionError")
               /\ UNCHANGED r
          ELSE /\ r' = reply
               /\ IF XmlParse(reply).raised
                  THEN Unhandled("ExpatError")
                  ELSE /\ pc' = "ack"
                       /\ UNCHANGED << log, response >>
    /\ UNCHANGED << request, data, document, line_item_num, wholesale_lines,
                    dc_lines >>

\* lines 230-238
Ack ==
    /\ pc = "ack"
    /\ IF AckIsPositive(XmlParse(r))
       THEN Return(OK, logger_info(log, "Order successfully sent to MDS."))
       ELSE Return(OK, logger_exception(log, "Problem sending Order to MDS. Response: .", r))
    /\ UNCHANGED << request, data, document, line_item_num, wholesale_lines,
                    dc_lines, sent, r >>

Next ==
    \/ Receive
    \/ Validate
    \/ VerifyHmac
    \/ Filter
    \/ Build
    \/ Account
    \/ Send
    \/ Ack

Spec == Init /\ [][Next]_vars

\* ===================================================================== claims
\* vocabulary of the claims, stated on the request and not on the handler's
\* own operators

Done == pc = "done"
Event == request.body.ev

\* the header carries the base64 HMAC-SHA256 of the raw body under the secret
SignatureMatches ==
    /\ request.header.present
    /\ request.header.value = B64Encode(HmacSha256(SHOPIFY_API_SECRET, request.body))

\* the body is the text of a JSON object
BodyIsObject == request.body.json = "object"

\* an authenticated, structurally valid request
Accepted == pc # "idle" /\ SignatureMatches /\ BodyIsObject

HasPrefix(sku, a, b) == Len(sku) >= 2 /\ sku[1] = a /\ sku[2] = b
Excluded(sku) == HasPrefix(sku, "W", "S") \/ HasPrefix(sku, "D", "C")

RefundPresent == Event.refunds = "truthy"
ShippingPresent == Event.shipping_address = "present"
CountryKnown == ShippingPresent /\ Event.defect # Missing("shipping_address", "country_code", 0)
Domestic == CountryKnown /\ Event.country_code = "US"
PassesFilters == Accepted /\ ~RefundPresent /\ Domestic

\* every line carries a string sku
SkusAreStrings ==
    \A i \in DOMAIN Event.line_items :
        Event.defect \notin { Missing("line", "sku", i), NonString("sku", i) }
AllLinesExcluded ==
    /\ Event.defect # Missing("", "line_items", 0)
    /\ SkusAreStrings
    /\ \A i \in DOMAIN Event.line_items : Excluded(Event.line_items[i])
SomeLineRetained ==
    \E i \in DOMAIN Event.line_items :
        /\ Event.defect \notin { Missing("line", "sku", i), NonString("sku", i) }
        /\ ~Excluded(Event.line_items[i])

Logged(msg) == \E i \in DOMAIN log : log[i].msg = msg
LoggedAt(msg, level) == \E i \in DOMAIN log : log[i].msg = msg /\ log[i].level = level
ErrorLogged == \E i \in DOMAIN log : log[i].level >= ERROR
MissingData == Response(400, "Bad Request (missing data)")
FailedValidation == Response(400, "Bad Request (failed validation)")

RefundMsg == "Discarding order from Shopify: refund."
NoShippingMsg == "Problem processing order from Shopify: no shipping address."
InternationalMsg == "International order from Shopify - not sent to MDS."
AllExcludedMsg == "Ignoring order from Shopify - all wholesale or decorative covers."
ParseProblemMsg == "Problem parsing order from Shopify."
SuccessMsg == "Order successfully sent to MDS."

\* C1: every invocation that is neither a signature mismatch nor a structural
\* failure answers 200 "OK", whatever the event holds and whatever the
\* downstream call does.
C1_EveryOtherPathAnswersOK ==
    (Done /\ Accepted) => response = OK

\* C2: a header that is not the base64 HMAC-SHA256 of the raw body is answered
\* 400 with one error record, takes none of the later steps and makes no
\* outbound call; a header that is equal is never rejected as a failed
\* validation.
C2_SignatureDecidesAuthentication ==
    /\ (pc # "idle" /\ ~SignatureMatches) =>
          /\ pc \in {"validate", "verify", "done"}
          /\ sent = << >>
          /\ document = << >>
          /\ Done => /\ response.status = 400
                     /\ Len(log) = 1
                     /\ log[1].level = ERROR
    /\ (pc # "idle" /\ SignatureMatches) =>
          /\ response # FailedValidation
          /\ ~Logged("Error validating webhook")

C2_Witness ==
    /\ Done
    /\ request.header.present
    /\ ~SignatureMatches
    /\ request.body.json = "object"
    /\ Event.defect = NoDefect /\ ~RefundPresent /\ Domestic /\ SomeLineRetained
    /\ response = FailedValidation

\* C3: a request without the signature header, or whose body is not a JSON
\* object (get_json raising, or returning no object), is answered 400 with the
\* missing-data body, logged as an error, processed no further, and causes no
\* outbound call.  Stated for the requests whose only fault is structural: a
\* header that is present is the signature of the body.
C3_MalformedRequestIsMissingData ==
    (Done /\ (~request.header.present \/ (SignatureMatches /\ ~BodyIsObject))) =>
        /\ response = MissingData
        /\ log = << LogRecord(ERROR, "Error receiving webhook", FALSE, "") >>
        /\ sent = << >>

\* C4: an outbound POST is made only for an event with no truthy refunds, a
\* shipping address and country_code "US"; the checks run in the order refund,
\* shipping address, country, so the first that applies decides what is logged.
C4_ForwardedOnlyIfDomesticSale ==
    /\ sent # << >> =>
          /\ Accepted
          /\ ~RefundPresent
          /\ ShippingPresent
          /\ CountryKnown /\ Event.country_code = "US"
    /\ (Done /\ Accepted /\ response = OK /\ RefundPresent) =>
          (Logged(RefundMsg) /\ ~Logged(NoShippingMsg) /\ ~Logged(InternationalMsg))
    /\ (Done /\ Accepted /\ response = OK /\ ~RefundPresent /\ ~ShippingPresent) =>
          (Logged(NoShippingMsg) /\ ~Logged(InternationalMsg))
    /\ (Done /\ Accepted /\ response = OK /\ ~RefundPresent /\ ShippingPresent
             /\ CountryKnown /\ Event.country_code # "US") =>
          Logged(InternationalMsg)

C4_Witness ==
    /\ Done
    /\ Len(sent) = 1
    /\ ~RefundPresent /\ Event.refunds = "empty"
    /\ Domestic
    /\ response = OK

\* C5: when every line item of an authenticated, non-refund, US-shipped event
\* has a sku starting with "WS" or "DC" (an empty list included), the retained
\* line count is zero, no outbound call is made and the handler returns
\* success without forwarding.
C5_AllExcludedReturnsOK ==
    (Done /\ PassesFilters /\ AllLinesExcluded) =>
        /\ line_item_num = 0
        /\ sent = << >>
        /\ response = OK

\* the line loop ran to its end
LoopFinished ==
    \/ pc \in {"account", "send", "ack"}
    \/ Done /\ (sent # << >> \/ Logged(AllExcludedMsg))

Items == Event.line_items
RetainedIndexes == { i \in DOMAIN Items : ~Excluded(Items[i]) }
WholesaleCount == Cardinality({ i \in DOMAIN Items : HasPrefix(Items[i], "W", "S") })
DecorativeCount == Cardinality({ i \in DOMAIN Items : HasPrefix(Items[i], "D", "C") })
\* the index in line_items of the k-th retained line
KthRetained(k) ==
    CHOOSE i \in RetainedIndexes :
        Cardinality({ j \in RetainedIndexes : j < i }) = k - 1
DigitValue(c) == CHOOSE d \in 0..9 : Digits[d + 1] = c
IsDigit(c) == \E d \in 0..9 : Digits[d + 1] = c

RequiredFieldMissing ==
    LET d == Event.defect
    IN  /\ d.kind = "missing"
        /\ d.where = "line" => (d.field = "sku" \/ ~Excluded(Items[d.line]))

\* C7: when any required field is missing while the document is built,
\* construction is aborted, the failure is logged with the order number,
\* nothing is sent downstream and the caller receives 200 "OK", whichever
\* field is the missing one, order_number included.
C7_MissingFieldIsAbsorbed ==
    (Done /\ PassesFilters /\ RequiredFieldMissing) =>
        /\ response = OK
        /\ sent = << >>
        /\ \E i \in DOMAIN log : log[i].msg = ParseProblemMsg /\ log[i].order

\* C8: once the POST has been answered, a response without the Result field,
\* with a Result other than "1", or that is not XML at all produces an
\* error-level record holding the raw response body, and the caller still
\* receives 200 "OK"; the success record appears only for Result "1".
C8_AcknowledgmentOnlyDecidesLogging ==
    (Done /\ sent # << >> /\ r # "") =>
        /\ response = OK
        /\ r = AckOne => (LoggedAt(SuccessMsg, INFO) /\ ~ErrorLogged)
        /\ r # AckOne =>
              /\ ~Logged(SuccessMsg)
              /\ \E i \in DOMAIN log : log[i].level >= ERROR /\ log[i].text = r

BusinessExclusion ==
    \/ RefundPresent
    \/ ~ShippingPresent
    \/ (CountryKnown /\ Event.country_code # "US")
    \/ (PassesFilters /\ AllLinesExcluded)

C10_ExactlyOnePostForAForwardableOrder ==
    /\ Len(sent) <= 1
    /\ (Done /\ PassesFilters /\ Event.defect.kind \notin {"missing", "malformed"}
             /\ SomeLineRetained) => Len(sent) = 1

====
